---- MODULE Spec2Model ----
(***************************************************************************)
(* The background job pool of backend/background_tasks.py                  *)
(* (BackgroundTaskManager) together with the job store of                  *)
(* backend/job_tracker.py (JobTracker).                                    *)
(*                                                                         *)
(* Threads: callers of submit_avatar_job, one caller of shutdown, and the  *)
(* worker threads that _process_queue starts.  The three                   *)
(* threading.Lock objects (worker_lock, queue_lock, JobTracker.lock) are   *)
(* variables holding their owner; threading.Lock is not reentrant.         *)
(*                                                                         *)
(* The store's calls return (sqlite3 raises only the IntegrityError of a   *)
(* duplicate primary key).  Timestamps are abstracted to set / unset;      *)
(* created_at and updated_at, which every row has, are left out.  A task   *)
(* is represented by its job_id.  shutdown is called at most once, at any  *)
(* moment.                                                                 *)
(***************************************************************************)
EXTENDS Integers, Sequences, FiniteSets, TLC

\* ---------------------------------------------------------------- bounds
MaxJobs == 3
NumCallers == 2

JobIds == 1..MaxJobs
Callers == 1..NumCallers

\* BackgroundTaskManager.__init__: max_workers: int = 2
max_workers == 2

\* ---------------------------------------------------------------- values
PENDING == "pending"
PROCESSING == "processing"
COMPLETED == "completed"
FAILED == "failed"
CANCELLED == "cancelled"

Terminal == {COMPLETED, FAILED, CANCELLED}

\* an optional argument that was not passed (Python None)
None == "None"

\* thread identities, used as lock owners
NoThread == <<"none", 0>>
CallerThread(c) == <<"caller", c>>
WorkerThread(i) == <<"worker", i>>
ShutdownThread == <<"shutdown", 0>>

VARIABLES
    jobs,            \* JobTracker: the rows of table jobs, keyed by job_id
    tracker_lock,    \* JobTracker.lock: its owner
    task_queue,      \* BackgroundTaskManager.task_queue (job ids of the tasks)
    active_workers,  \* BackgroundTaskManager.active_workers
    worker_lock,     \* BackgroundTaskManager.worker_lock: its owner
    queue_lock,      \* BackgroundTaskManager.queue_lock: its owner
    caller,          \* per caller thread: position in submit_avatar_job, job_id
    workers,         \* the worker threads started so far, in start order
    sd,              \* the thread calling shutdown: position and locals
    enqueued,        \* history: job ids in the order they were appended
    queuedAtShutdown \* history: job ids queued when shutdown was called

poolVars == <<jobs, tracker_lock, task_queue, active_workers, worker_lock,
              queue_lock, caller, workers, sd, enqueued, queuedAtShutdown>>

\* RateLimiter (backend/rate_limiter.py)
VARIABLES
    buckets,         \* RateLimiter.buckets: client_id -> (tokens, last_update)
    now,             \* the reading of time.time(), in ticks
    rlOp,            \* the last RateLimiter call: what, for whom, when, result
    burst            \* history: per client, the calls since its bucket was made

rlVars == <<buckets, now, rlOp, burst>>

\* CacheManager: self.memory_cache, the .cache files of cache_dir, self.ttl,
\* the owner of self.lock, the reading of time.time(), each calling thread's
\* position and locals; cacheOp is the last call that returned since the
\* clock last advanced and expiredMiss the keys whose last get missed on an expired entry;
\* lastSet is, for each key, the value of the latest set since the key was
\* last invalidated
VARIABLES memory_cache, files, ttl, cache_lock, clock, cth, cacheOp, expiredMiss,
          lastSet

cacheVars ==
    <<memory_cache, files, ttl, cache_lock, clock, cth, cacheOp, expiredMiss,
      lastSet>>

\* the cleanup side: the reading of datetime.utcnow() in ticks, the
\* created_at column of the jobs table, CleanupScheduler.running and the
\* threads that run CleanupScheduler._run
VARIABLES utc, created_at, running, loops

cleanupVars == <<utc, created_at, running, loops>>

\* threads that call the JobTracker directly (st: position and the job_id
\* passed) and the thread inside BackgroundTaskManager.get_queue_status
\* (qs: position, the locals read so far, the jobs appended by then)
VARIABLES st, qs

directVars == <<st, qs>>

vars == <<poolVars, rlVars, cacheVars, cleanupVars, directVars>>

nonRLVars == <<poolVars, cacheVars, cleanupVars, directVars>>

nonCacheVars == <<poolVars, rlVars, cleanupVars, directVars>>

\* ------------------------------------------------------------- helpers
Range(s) == {s[i] : i \in 1..Len(s)}

\* number of positions of sequence s that hold x
Count(s, x) == Cardinality({i \in 1..Len(s) : s[i] = x})

\* ---------------------------------------------------------- JobTracker
\* create_job: INSERT ... VALUES (job_id, 'pending', now, now, metadata);
\* the other columns take their defaults (NULL, progress 0.0)
NewRow ==
    [status |-> PENDING, started_at |-> FALSE, completed_at |-> FALSE,
     progress |-> 0, error_message |-> None, result_path |-> None]

\* update_job_status: the progress parameter left at its default None (the
\* value is not a progress in tenths)
NoProgress == -100

\* update_job_status, the UPDATE it builds for a status other than
\* PROCESSING (for PROCESSING see WorkerUpdateProcessing): progress is in
\* tenths, None (NoProgress for the progress) stands for an argument that
\* was not passed
UpdatedRow(row, status, progress, error_message, result_path) ==
    [row EXCEPT
        !.status = status,
        !.completed_at = IF status \in {COMPLETED, FAILED} THEN TRUE ELSE @,
        !.progress = IF progress # NoProgress THEN progress ELSE @,
        !.error_message = IF error_message # None THEN error_message ELSE @,
        !.result_path = IF result_path # None THEN result_path ELSE @]

\* UPDATE jobs SET ... WHERE job_id = ?: no row matches an unknown id
UpdateJobs(js, j, status, progress, error_message, result_path) ==
    IF j \in DOMAIN js
    THEN [js EXCEPT ![j] =
             UpdatedRow(js[j], status, progress, error_message, result_path)]
    ELSE js

\* ------------------------------------------------ BackgroundTaskManager
\* _process_queue: if self.active_workers >= self.max_workers: return
WorkersBusy_Mut == active_workers > max_workers
WorkersBusy == active_workers >= max_workers

\* _process_queue: task = self.task_queue.pop(0); <<task, remaining queue>>
PopTask_Last(q) == <<q[Len(q)], SubSeq(q, 1, Len(q) - 1)>>
PopTask_Keep(q) == <<Head(q), q>>
PopTask(q) == <<Head(q), Tail(q)>>

\* shutdown: cancelled = len(self.task_queue)
CancelledCount_Mut(q) == IF Len(q) > 0 THEN Len(q) - 1 ELSE 0
CancelledCount(q) == Len(q)

\* shutdown: the status it passes to update_job_status
ShutdownStatus_Mut == FAILED
ShutdownStatus == CANCELLED

PoolInit ==
    /\ jobs = <<>>
    /\ tracker_lock = NoThread
    /\ task_queue = <<>>
    /\ active_workers = 0
    /\ worker_lock = NoThread
    /\ queue_lock = NoThread
    /\ caller = [c \in Callers |-> [pc |-> "idle", job_id |-> 0]]
    /\ workers = <<>>
    /\ sd = [pc |-> "idle", cancelled |-> 0, i |-> 0, ret |-> None]
    /\ enqueued = <<>>
    /\ queuedAtShutdown = {}

\* RateLimiter.__init__: no bucket; the clock starts at tick 0
RLInit ==
    /\ buckets = <<>>
    /\ now = 0
    /\ rlOp = [op |-> "none", client |-> "none", result |-> 0]
    /\ burst = <<>>

\* the bounds of the cache model: ticks of the clock in the configured ttl
\* (3600 s), the last tick of a run
TicksPerTtl == 2
MaxClock == 2

\* the threads that call the cache: each may call a function wrapped by
\* cache_result, the first also get, set, invalidate and clear
CacheThreads == {1, 2}
PlainThreads == {1}

\* CacheManager(): ttl = 3600 s
DefaultTtl == TicksPerTtl

NoOp == [op |-> "none", key |-> "none", value |-> None, found |-> FALSE,
         timestamp |-> 0, age |-> 0, expired |-> FALSE, raised |-> FALSE]

IdleThread == [pc |-> "idle", key |-> "none", value |-> None, timestamp |-> 0,
               cache_ttl |-> 0, original_ttl |-> 0, wrapped |-> FALSE,
               sawExpired |-> FALSE]

CacheInit ==
    /\ memory_cache = <<>>
    /\ files = <<>>
    /\ ttl = DefaultTtl
    /\ cache_lock = 0
    /\ clock = 0
    /\ cth = [t \in CacheThreads |-> IdleThread]
    /\ cacheOp = NoOp
    /\ expiredMiss = {}
    /\ lastSet = <<>>

\* JobTracker: no row; CleanupScheduler.__init__: running = False, no
\* thread; the clock starts at a midnight
CleanupInit ==
    /\ utc = 0
    /\ created_at = <<>>
    /\ running = FALSE
    /\ loops = <<>>

\* the threads that call the JobTracker directly
StoreThreads == {1, 2}
StoreThread(t) == <<"store", t>>

\* no direct call is under way; get_queue_status has not been called
DirectInit ==
    /\ st = [t \in StoreThreads |-> [pc |-> "idle", job_id |-> 0]]
    /\ qs = [pc |-> "idle", queue_size |-> 0, active_workers |-> 0,
             appended |-> 0]

Init == PoolInit /\ RLInit /\ CacheInit /\ CleanupInit /\ DirectInit

\* the variables of the other components
nonPoolVars == <<rlVars, cacheVars, cleanupVars, directVars>>

\* --------------------------------------------------- submit_avatar_job
\* the job ids in use: those with a row and those of the calls in progress
UsedIds == DOMAIN jobs \cup {caller[c].job_id : c \in Callers}

\* a caller enters submit_avatar_job with job_id j: an id in use (passed by
\* the caller) or a new one (passed by the caller, or the uuid4 drawn for
\* it).  Ids are opaque, so the new id is the least id not in use.
SubmitCall(c, j) ==
    /\ caller[c].pc = "idle"
    /\ \A k \in 1..(j - 1) : k \in UsedIds
    /\ caller' = [caller EXCEPT ![c] = [pc |-> "create", job_id |-> j]]
    /\ UNCHANGED <<jobs, tracker_lock, task_queue, active_workers, worker_lock,
                   queue_lock, workers, sd, enqueued, queuedAtShutdown>>
    /\ UNCHANGED nonPoolVars

\* job_tracker.create_job under JobTracker.lock: the INSERT of a new id
CreateJob(c) ==
    /\ caller[c].pc = "create"
    /\ tracker_lock = NoThread
    /\ caller[c].job_id \notin DOMAIN jobs
    /\ jobs' = jobs @@ (caller[c].job_id :> NewRow)
    /\ created_at' = created_at @@ (caller[c].job_id :> utc)
    /\ caller' = [caller EXCEPT ![c].pc = "append"]
    /\ UNCHANGED <<tracker_lock, task_queue, active_workers, worker_lock,
                   queue_lock, workers, sd, enqueued, queuedAtShutdown>>
    /\ UNCHANGED <<rlVars, cacheVars, directVars, utc, running, loops>>

\* job_tracker.create_job of an id that has a row: job_id is the PRIMARY
\* KEY, the INSERT raises sqlite3.IntegrityError out of submit_avatar_job
CreateJobDuplicate_Replace(c) ==
    /\ caller[c].pc = "create"
    /\ tracker_lock = NoThread
    /\ caller[c].job_id \in DOMAIN jobs
    /\ jobs' = [jobs EXCEPT ![caller[c].job_id] = NewRow]
    /\ caller' = [caller EXCEPT ![c].pc = "append"]
    /\ UNCHANGED <<tracker_lock, task_queue, active_workers, worker_lock,
                   queue_lock, workers, sd, enqueued, queuedAtShutdown>>
    /\ UNCHANGED nonPoolVars
CreateJobDuplicate(c) ==
    /\ caller[c].pc = "create"
    /\ tracker_lock = NoThread
    /\ caller[c].job_id \in DOMAIN jobs
    /\ caller' = [caller EXCEPT ![c] = [pc |-> "idle", job_id |-> 0]]
    /\ UNCHANGED <<jobs, tracker_lock, task_queue, active_workers, worker_lock,
                   queue_lock, workers, sd, enqueued, queuedAtShutdown>>
    /\ UNCHANGED nonPoolVars

\* with self.queue_lock: self.task_queue.append(task)
AppendTask_KeepLock(c) ==
    /\ caller[c].pc = "append"
    /\ queue_lock = NoThread
    /\ queue_lock' = CallerThread(c)
    /\ task_queue' = Append(task_queue, caller[c].job_id)
    /\ enqueued' = Append(enqueued, caller[c].job_id)
    /\ caller' = [caller EXCEPT ![c].pc = "process_queue"]
    /\ UNCHANGED <<jobs, tracker_lock, active_workers, worker_lock,
                   workers, sd, queuedAtShutdown>>
    /\ UNCHANGED nonPoolVars
AppendTask(c) ==
    /\ caller[c].pc = "append"
    /\ queue_lock = NoThread
    /\ task_queue' = Append(task_queue, caller[c].job_id)
    /\ enqueued' = Append(enqueued, caller[c].job_id)
    /\ caller' = [caller EXCEPT ![c].pc = "process_queue"]
    /\ UNCHANGED <<jobs, tracker_lock, active_workers, worker_lock, queue_lock,
                   workers, sd, queuedAtShutdown>>
    /\ UNCHANGED nonPoolVars

\* ------------------------------------------------------ _process_queue
\* with self.worker_lock: all workers busy, return (and submit returns)
ProcessQueueBusy(c) ==
    /\ caller[c].pc = "process_queue"
    /\ worker_lock = NoThread
    /\ WorkersBusy
    /\ caller' = [caller EXCEPT ![c] = [pc |-> "idle", job_id |-> 0]]
    /\ UNCHANGED <<jobs, tracker_lock, task_queue, active_workers, worker_lock,
                   queue_lock, workers, sd, enqueued, queuedAtShutdown>>
    /\ UNCHANGED nonPoolVars

\* with self.worker_lock: a worker is free, go on to take queue_lock
ProcessQueueLock(c) ==
    /\ caller[c].pc = "process_queue"
    /\ worker_lock = NoThread
    /\ ~WorkersBusy
    /\ worker_lock' = CallerThread(c)
    /\ caller' = [caller EXCEPT ![c].pc = "queue_lock"]
    /\ UNCHANGED <<jobs, tracker_lock, task_queue, active_workers, queue_lock,
                   workers, sd, enqueued, queuedAtShutdown>>
    /\ UNCHANGED nonPoolVars

\* with self.queue_lock: the queue is empty, return releasing both locks
ProcessQueueEmpty(c) ==
    /\ caller[c].pc = "queue_lock"
    /\ queue_lock = NoThread
    /\ task_queue = <<>>
    /\ worker_lock' = NoThread
    /\ caller' = [caller EXCEPT ![c] = [pc |-> "idle", job_id |-> 0]]
    /\ UNCHANGED <<jobs, tracker_lock, task_queue, active_workers, queue_lock,
                   workers, sd, enqueued, queuedAtShutdown>>
    /\ UNCHANGED nonPoolVars

\* with self.queue_lock: pop a task; active_workers += 1; release
\* worker_lock; start the worker thread of the task
ProcessQueueDispatch(c) ==
    /\ caller[c].pc = "queue_lock"
    /\ queue_lock = NoThread
    /\ task_queue # <<>>
    /\ task_queue' = PopTask(task_queue)[2]
    /\ active_workers' = active_workers + 1
    /\ worker_lock' = NoThread
    /\ workers' = Append(workers, [job_id |-> PopTask(task_queue)[1],
                                   pc |-> "start"])
    /\ caller' = [caller EXCEPT ![c] = [pc |-> "idle", job_id |-> 0]]
    /\ UNCHANGED <<jobs, tracker_lock, queue_lock, sd, enqueued,
                   queuedAtShutdown>>
    /\ UNCHANGED nonPoolVars

\* ------------------------------------------------------------- _worker
\* The worker's first statement is update_job_status(job_id, PROCESSING,
\* progress=0.1).  update_job_status takes JobTracker.lock and, for status
\* PROCESSING, calls self.get_job(job_id) inside it; get_job takes the same
\* threading.Lock, which its own thread holds.  The worker stays at
\* "get_job" owning the lock: the UPDATE, the rest of _worker and its
\* finally block are never run.
WorkerUpdateProcessing(i) ==
    /\ i \in 1..Len(workers)
    /\ workers[i].pc = "start"
    /\ tracker_lock = NoThread
    /\ tracker_lock' = WorkerThread(i)
    /\ workers' = [workers EXCEPT ![i].pc = "get_job"]
    /\ UNCHANGED <<jobs, task_queue, active_workers, worker_lock, queue_lock,
                   caller, sd, enqueued, queuedAtShutdown>>
    /\ UNCHANGED nonPoolVars

\* a thread that waits for JobTracker.lock while owning it
SelfDeadlocked(i) ==
    /\ i \in 1..Len(workers)
    /\ workers[i].pc = "get_job"
    /\ tracker_lock = WorkerThread(i)

\* ------------------------------------------------------------ shutdown
\* shutdown(timeout) is called
ShutdownCall ==
    /\ sd.pc = "idle"
    /\ sd' = [sd EXCEPT !.pc = "wait"]
    /\ queuedAtShutdown' = Range(task_queue)
    /\ UNCHANGED <<jobs, tracker_lock, task_queue, active_workers, worker_lock,
                   queue_lock, caller, workers, enqueued>>
    /\ UNCHANGED nonPoolVars

\* while self.active_workers > 0 and elapsed < timeout: the loop ends
\* because no worker is active (a turn of the loop that sleeps changes
\* nothing)
ShutdownWorkersDone ==
    /\ sd.pc = "wait"
    /\ active_workers = 0
    /\ sd' = [sd EXCEPT !.pc = "cancel_lock"]
    /\ UNCHANGED <<jobs, tracker_lock, task_queue, active_workers, worker_lock,
                   queue_lock, caller, workers, enqueued, queuedAtShutdown>>
    /\ UNCHANGED nonPoolVars

\* the loop ends because timeout seconds have passed
ShutdownTimeout ==
    /\ sd.pc = "wait"
    /\ active_workers > 0
    /\ sd' = [sd EXCEPT !.pc = "cancel_lock"]
    /\ UNCHANGED <<jobs, tracker_lock, task_queue, active_workers, worker_lock,
                   queue_lock, caller, workers, enqueued, queuedAtShutdown>>
    /\ UNCHANGED nonPoolVars

\* with self.queue_lock: cancelled = len(self.task_queue)
ShutdownLock ==
    /\ sd.pc = "cancel_lock"
    /\ queue_lock = NoThread
    /\ queue_lock' = ShutdownThread
    /\ sd' = [sd EXCEPT !.pc = "cancel", !.cancelled = CancelledCount(task_queue),
                        !.i = 1]
    /\ UNCHANGED <<jobs, tracker_lock, task_queue, active_workers, worker_lock,
                   caller, workers, enqueued, queuedAtShutdown>>
    /\ UNCHANGED nonPoolVars

\* for task in self.task_queue: update_job_status(job_id, CANCELLED,
\* error_message="Service shutdown"), under JobTracker.lock
ShutdownCancelTask ==
    /\ sd.pc = "cancel"
    /\ sd.i <= Len(task_queue)
    /\ tracker_lock = NoThread
    /\ jobs' = UpdateJobs(jobs, task_queue[sd.i], ShutdownStatus, NoProgress,
                          "Service shutdown", None)
    /\ sd' = [sd EXCEPT !.i = @ + 1]
    /\ UNCHANGED <<tracker_lock, task_queue, active_workers, worker_lock,
                   queue_lock, caller, workers, enqueued, queuedAtShutdown>>
    /\ UNCHANGED nonPoolVars

\* self.task_queue.clear(); release queue_lock; return cancelled
ShutdownReturn ==
    /\ sd.pc = "cancel"
    /\ sd.i > Len(task_queue)
    /\ task_queue' = <<>>
    /\ queue_lock' = NoThread
    /\ sd' = [sd EXCEPT !.pc = "done", !.ret = sd.cancelled]
    /\ UNCHANGED <<jobs, tracker_lock, active_workers, worker_lock, caller,
                   workers, enqueued, queuedAtShutdown>>
    /\ UNCHANGED nonPoolVars

Next ==
    \/ \E c \in Callers, j \in JobIds : SubmitCall(c, j)
    \/ \E c \in Callers : CreateJob(c)
    \/ \E c \in Callers : CreateJobDuplicate(c)
    \/ \E c \in Callers : AppendTask(c)
    \/ \E c \in Callers : ProcessQueueBusy(c)
    \/ \E c \in Callers : ProcessQueueLock(c)
    \/ \E c \in Callers : ProcessQueueEmpty(c)
    \/ \E c \in Callers : ProcessQueueDispatch(c)
    \/ \E i \in 1..MaxJobs : WorkerUpdateProcessing(i)
    \/ ShutdownCall
    \/ ShutdownWorkersDone
    \/ ShutdownTimeout
    \/ ShutdownLock
    \/ ShutdownCancelTask
    \/ ShutdownReturn

Spec == Init /\ [][Next]_vars

\* Each thread that can take a step eventually takes it; a thread waiting
\* for a lock gets it if the lock is free again and again.  Nothing obliges
\* anybody to call submit_avatar_job or shutdown.
CallerStep(c) ==
    \/ CreateJob(c) \/ CreateJobDuplicate(c) \/ AppendTask(c)
    \/ ProcessQueueBusy(c) \/ ProcessQueueLock(c)
    \/ ProcessQueueEmpty(c) \/ ProcessQueueDispatch(c)

ShutdownStep ==
    \/ ShutdownWorkersDone \/ ShutdownTimeout \/ ShutdownLock
    \/ ShutdownCancelTask \/ ShutdownReturn

Fairness ==
    /\ \A c \in Callers : SF_vars(CallerStep(c))
    /\ \A i \in 1..MaxJobs : SF_vars(WorkerUpdateProcessing(i))
    /\ SF_vars(ShutdownStep)

FairSpec == Spec /\ Fairness

\* ------------------------------------------------------------- notions
\* the job ids of the tasks handed to worker threads, in start order
Dispatched == [i \in 1..Len(workers) |-> workers[i].job_id]

Claimed(j) == \E i \in 1..Len(workers) : workers[i].job_id = j

IsTerminal(j) == j \in DOMAIN jobs /\ jobs[j].status \in Terminal

\* position of job id x in the order of the appends
Pos(x) == CHOOSE i \in 1..Len(enqueued) : enqueued[i] = x

\* some worker thread owns JobTracker.lock and waits for it
WorkerStuck == \E i \in 1..Len(workers) : SelfDeadlocked(i)

\* shutdown owns queue_lock and waits for a JobTracker.lock that is never
\* released
ShutdownStuck ==
    /\ sd.pc = "cancel"
    /\ sd.i <= Len(task_queue)
    /\ WorkerStuck

\* caller c waits for a lock whose owner never releases it
CallerStuck(c) ==
    \/ caller[c].pc = "create" /\ WorkerStuck
    \/ caller[c].pc \in {"append", "queue_lock"} /\ ShutdownStuck
    \/ /\ caller[c].pc = "process_queue"
       /\ \E d \in Callers : worker_lock = CallerThread(d) /\ ShutdownStuck

\* -------------------------------------------------------------- claims

\* C1: with max_workers = N, once N+k jobs (k >= 1) have been submitted,
\* under fair scheduling every one of them eventually has a terminal status
\* (COMPLETED, FAILED or CANCELLED).
C1_AllJobsEventuallyTerminal ==
    [](Len(enqueued) > max_workers
         => <>(\A j \in Range(enqueued) : IsTerminal(j)))

\* C2: in every reachable state active_workers <= max_workers, and the
\* number of worker threads executing a job is at most max_workers.
C2_PoolBound ==
    /\ active_workers <= max_workers
    /\ Cardinality({i \in 1..Len(workers) :
                        workers[i].pc \in {"start", "get_job"}}) <= max_workers

\* C2 witness: all workers are taken, a further job was submitted and its
\* dispatch was refused.
C2_Witness ==
    /\ active_workers = max_workers
    /\ Len(workers) = max_workers
    /\ task_queue # <<>>
    /\ \A c \in Callers : caller[c].pc = "idle"

\* C3: every change of a job's status follows an edge of
\* PENDING -> PROCESSING -> {COMPLETED, FAILED} or PENDING -> CANCELLED;
\* a job that a worker has claimed does not become CANCELLED; a terminal
\* status does not change.
StatusEdges ==
    {<<PENDING, PROCESSING>>, <<PROCESSING, COMPLETED>>,
     <<PROCESSING, FAILED>>, <<PENDING, CANCELLED>>}

C4_CompletedAtIffTerminal ==
    \A j \in DOMAIN jobs : jobs[j].completed_at <=> jobs[j].status \in Terminal

\* C5: every job accepted by submit (appended to the queue) is in exactly
\* one place: once in the queue, or handed to exactly one worker thread,
\* or cancelled by shutdown and removed from the queue.
C5_AttemptedExactlyOnce ==
    \A j \in Range(enqueued) :
        /\ Count(enqueued, j) = 1
        /\ Count(task_queue, j) + Count(Dispatched, j)
             + (IF j \notin Range(task_queue) /\ jobs[j].status = CANCELLED
                THEN 1 ELSE 0) = 1

\* C5 witness: of three accepted jobs one is with a worker, one was
\* cancelled by shutdown and one is queued.
C5_Witness ==
    /\ \E j \in Range(enqueued) : Claimed(j)
    /\ \E j \in Range(enqueued) :
          j \notin Range(task_queue) /\ jobs[j].status = CANCELLED
    /\ task_queue # <<>>

\* C6: a submit call in progress never waits for a lock that is never
\* released: it returns after its own steps, whatever the workers do.
C6_SubmitNeverBlocked == \A c \in Callers : ~CallerStuck(c)

\* C7: when no dispatch of a submit call is pending, it is not the case
\* that a worker is free while the queue is non-empty; and tasks leave the
\* queue in the order of their appends: the dispatched jobs are in append
\* order, and every queued job was appended after every dispatched job.
C7_WorkConservingFIFO ==
    /\ (\A c \in Callers : caller[c].pc \notin {"process_queue", "queue_lock"})
          => ~(active_workers < max_workers /\ task_queue # <<>>)
    /\ \A i, k \in 1..Len(workers) :
          i < k => Pos(workers[i].job_id) < Pos(workers[k].job_id)
    /\ \A i \in 1..Len(workers), k \in 1..Len(task_queue) :
          Pos(workers[i].job_id) < Pos(task_queue[k])
    /\ \A i, k \in 1..Len(task_queue) :
          i < k => Pos(task_queue[i]) < Pos(task_queue[k])

\* C7 witness: two jobs were dispatched from the queue, a third waits, and
\* no submit call is in progress.
C7_Witness ==
    /\ Len(workers) = max_workers
    /\ Len(task_queue) >= 1
    /\ \A c \in Callers : caller[c].pc = "idle"
    /\ sd.pc = "idle"

\* C8: no job that was in the queue when shutdown was called is started by
\* a worker afterwards.
C8_NoDispatchAfterShutdown ==
    \A i \in 1..Len(workers) : workers[i].job_id \notin queuedAtShutdown

\* C9: in the step in which shutdown returns, the jobs set to CANCELLED are
\* exactly the jobs in the queue, none of them was handed to a worker, the
\* returned count is their number, and the queue is empty afterwards.
C9_ShutdownCount ==
    [][sd.pc = "cancel" /\ sd'.pc = "done"
          => /\ {j \in DOMAIN jobs : jobs[j].status = CANCELLED}
                  = Range(task_queue)
             /\ \A j \in Range(task_queue) : ~Claimed(j)
             /\ sd'.ret = Cardinality(Range(task_queue))
             /\ task_queue' = <<>>]_vars

\* C9 witness: shutdown has returned 2 with two jobs cancelled.
C9_Witness ==
    /\ sd.pc = "done"
    /\ sd.ret = 2
    /\ Cardinality({j \in DOMAIN jobs : jobs[j].status = CANCELLED}) = 2

\* C10: shutdown always returns: it never waits for a lock that is never
\* released, whatever the workers are doing or holding.
C10_ShutdownNeverBlocked == ~ShutdownStuck

\* =================================================================
\* RateLimiter (backend/rate_limiter.py)
\*
\* time.time() is read in ticks, TicksPerSecond ticks to the second.  Token
\* counts are exact: one token is TokenUnit units, so that the refill of
\* one tick, tokens_per_second / TicksPerSecond tokens, is the whole number
\* requests_per_minute of units.
\* =================================================================
Clients == {"c1", "c2"}

\* the resolution of the clock and the last tick of a run
TicksPerSecond == 2
MaxTime == 4

\* config.py: RATE_LIMIT_PER_MINUTE defaults to 60
requests_per_minute == 60

\* main.py: RateLimiter(requests_per_minute=..., burst_size=10)
burst_size_arg == 10

\* self.burst_size = burst_size or requests_per_minute
burst_size ==
    IF burst_size_arg = 0 THEN requests_per_minute ELSE burst_size_arg

\* the float 1.0 of "tokens >= 1.0" and "tokens -= 1.0", in units
TokenUnit == 60 * TicksPerSecond

\* self.tokens_per_second = requests_per_minute / 60.0, in units per tick
RefillPerTick == requests_per_minute

\* self.burst_size as a token count, in units
BurstUnits == burst_size * TokenUnit

Min2(a, b) == IF a <= b THEN a ELSE b

\* tokens = min(self.burst_size, tokens + elapsed * self.tokens_per_second)
\* for bucket b = (tokens, last_update) read at time t
Refilled_NoCap(b, t) == b.tokens + (t - b.last_update) * RefillPerTick
Refilled(b, t) ==
    Min2(BurstUnits, b.tokens + (t - b.last_update) * RefillPerTick)

\* is_allowed, the bucket it stores when tokens < 1.0: (tokens, now)
RejectedBucket_Stale(b, t) == [tokens |-> b.tokens, last_update |-> t]
RejectedBucket(b, t) == [tokens |-> Refilled(b, t), last_update |-> t]

\* is_allowed(client k) at time t: its return value
IsAllowedReturn(bs, k, t) ==
    \/ k \notin DOMAIN bs
    \/ Refilled(bs[k], t) >= TokenUnit

\* is_allowed(client k) at time t: self.buckets afterwards
IsAllowedBuckets_Global(bs, k, t) ==
    [c \in DOMAIN bs \cup {k} |-> [tokens |-> 0, last_update |-> t]]
IsAllowedBuckets(bs, k, t) ==
    IF k \notin DOMAIN bs
    THEN bs @@ (k :> [tokens |-> BurstUnits, last_update |-> t])
    ELSE IF Refilled(bs[k], t) >= TokenUnit
         THEN [bs EXCEPT ![k] = [tokens |-> Refilled(bs[k], t) - TokenUnit,
                                 last_update |-> t]]
         ELSE [bs EXCEPT ![k] = RejectedBucket(bs[k], t)]

\* get_retry_after: the token count it computes for bucket b at time t
RetryAfterTokens_Stored(b, t) == b.tokens
RetryAfterTokens(b, t) == Refilled(b, t)

\* get_retry_after(client k) at time t: the units still needed for one
\* token; the value returned is this over tokens_per_second, that is
\* RetryAfterNeeded / RefillPerTick ticks
RetryAfterNeeded(bs, k, t) ==
    IF k \notin DOMAIN bs THEN 0
    ELSE IF RetryAfterTokens(bs[k], t) >= TokenUnit THEN 0
    ELSE TokenUnit - RetryAfterTokens(bs[k], t)

\* get_retry_after(client k) at time t: self.buckets afterwards (the method
\* assigns nothing)
RetryAfterBuckets_Store(bs, k, t) ==
    IF k \in DOMAIN bs THEN [bs EXCEPT ![k] = RejectedBucket(bs[k], t)] ELSE bs
RetryAfterBuckets(bs, k, t) == bs

\* cleanup_old_buckets(max_age) at time t: the client ids it removes
ToRemove(bs, t, max_age) ==
    {k \in DOMAIN bs : t - bs[k].last_update > max_age}

Restrict(f, S) == [x \in S |-> f[x]]

\* the history of the calls for client k since its bucket was made, kept
\* while the clock still reads the time of the bucket's creation: how many
\* is_allowed calls, how many admitted (up to burst_size + 2 calls)
BurstAfter(h, k, isNew, admitted) ==
    IF isNew
    THEN h @@ (k :> [calls |-> 1, admitted |-> 1])
    ELSE IF k \in DOMAIN h /\ h[k].calls < burst_size + 2
         THEN [h EXCEPT ![k].calls = @ + 1,
                        ![k].admitted = @ + (IF admitted THEN 1 ELSE 0)]
         ELSE h

\* a request of client k reaches is_allowed
IsAllowed(k) ==
    /\ buckets' = IsAllowedBuckets(buckets, k, now)
    /\ rlOp' = [op |-> "is_allowed", client |-> k,
                result |-> IF IsAllowedReturn(buckets, k, now) THEN 1 ELSE 0]
    /\ burst' = BurstAfter(burst, k, k \notin DOMAIN buckets,
                           IsAllowedReturn(buckets, k, now))
    /\ UNCHANGED <<now, nonRLVars>>

\* get_retry_after for client k
GetRetryAfter(k) ==
    /\ buckets' = RetryAfterBuckets(buckets, k, now)
    /\ rlOp' = [op |-> "get_retry_after", client |-> k,
                result |-> RetryAfterNeeded(buckets, k, now)]
    /\ UNCHANGED <<now, burst, nonRLVars>>

\* cleanup_old_buckets(max_age_seconds = secs)
CleanupOldBuckets(secs) ==
    LET gone == ToRemove(buckets, now, secs * TicksPerSecond) IN
    /\ buckets' = Restrict(buckets, DOMAIN buckets \ gone)
    /\ burst' = Restrict(burst, DOMAIN burst \ gone)
    /\ rlOp' = [op |-> "cleanup_old_buckets", client |-> "none",
                result |-> Cardinality(gone)]
    /\ UNCHANGED <<now, nonRLVars>>

\* time passes: the next reading of the clock is one tick later
Tick ==
    /\ now < MaxTime
    /\ now' = now + 1
    /\ burst' = <<>>
    /\ UNCHANGED <<buckets, rlOp, nonRLVars>>

NextRL ==
    \/ \E k \in Clients : IsAllowed(k)
    \/ \E k \in Clients : GetRetryAfter(k)
    \/ \E secs \in {0, 1} : CleanupOldBuckets(secs)
    \/ Tick

SpecRL == Init /\ [][NextRL]_vars

\* -----------------------------------------------------------------
\* Claims about the rate limiter
\* -----------------------------------------------------------------

\* C11: for a client seen for the first time, with no time elapsing between
\* the calls, exactly the first burst_size calls to is_allowed are admitted
\* and the next one is rejected: after n calls in the instant of the
\* bucket's creation, min(n, burst_size) were admitted.
C11_FirstBurstExact ==
    \A k \in DOMAIN burst :
        burst[k].admitted = Min2(burst[k].calls, burst_size)

\* C12: every bucket's token count lies in [0, burst_size].
C12_TokensInRange ==
    \A k \in DOMAIN buckets :
        /\ buckets[k].tokens >= 0
        /\ buckets[k].tokens <= BurstUnits

\* a call at a later time than the bucket's creation found the bucket
\* refilled to the cap and took one token from it
C12_Witness ==
    \E k \in DOMAIN buckets :
        /\ k \notin DOMAIN burst
        /\ now > 0
        /\ buckets[k].last_update = now
        /\ buckets[k].tokens = BurstUnits - TokenUnit

\* C13: a rejected is_allowed call consumes no token (the bucket holds the
\* refilled count afterwards) and does not postpone the client's next
\* admission: at every later time the bucket offers what it would have
\* offered without the call.
C13_RejectKeepsTokens ==
    [][\A k \in Clients :
          (IsAllowed(k) /\ ~IsAllowedReturn(buckets, k, now)) =>
              /\ buckets'[k].tokens = Refilled(buckets[k], now)
              /\ \A t \in now..(MaxTime + TokenUnit) :
                    Refilled(buckets'[k], t) = Refilled(buckets[k], t)]_vars

\* a call was rejected although part of a token had been refilled
C13_Witness ==
    /\ rlOp.op = "is_allowed"
    /\ rlOp.result = 0
    /\ buckets[rlOp.client].tokens > 0
    /\ buckets[rlOp.client].last_update = now

\* C14: get_retry_after leaves the buckets map as it found it, keys, tokens
\* and last_update, also for a client that has no bucket.
C14_RetryAfterReadOnly ==
    [][\A k \in Clients : GetRetryAfter(k) => buckets' = buckets]_vars

\* get_retry_after was called for a client whose bucket was last written at
\* an earlier time
C14_Witness ==
    /\ rlOp.op = "get_retry_after"
    /\ rlOp.client \in DOMAIN buckets
    /\ buckets[rlOp.client].last_update < now

CacheKeys == {"k1"}

CacheValues == {None, "tuple", "bytes"}

\* what a wrapped function computes
WrapperValues == {"tuple"}

\* the ttl argument of the cache_result decorator: shorter and longer than
\* the configured ttl
DecoratorTtls == {1, TicksPerTtl + 1}

\* what json.load gives for what json.dump wrote
JsonRoundTrip(v) == IF v = "tuple" THEN "list" ELSE v

JsonSerialisable(v) == v # "bytes"

\* a cache file that json.load cannot read
Corrupt == [value |-> "corrupt", timestamp |-> 0]

Drop(f, k) == Restrict(f, DOMAIN f \ {k})

Put(f, k, e) == [x \in DOMAIN f \cup {k} |-> IF x = k THEN e ELSE f[x]]

\* time.time() - timestamp < self.ttl
Fresh(e, t, curTtl) == t - e.timestamp < curTtl

\* set: the file tier after the write of (v, ts) for key k; open() may
\* fail (IOError, the old file stays) and the write may fail half way
FileAfterSet(f, k, v, ts, io) ==
    IF io = "open_fails" THEN f
    ELSE IF io = "write_fails" \/ ~JsonSerialisable(v) THEN Put(f, k, Corrupt)
    ELSE Put(f, k, [value |-> JsonRoundTrip(v), timestamp |-> ts])

\* set raises what is not an IOError
SetRaises(v, io) == io # "open_fails" /\ ~JsonSerialisable(v)

\* get, the expired branch for the file tier: os.remove(cache_file)
FilesAfterExpiry_Keep(f, k) == f
FilesAfterExpiry(f, k) == Drop(f, k)

\* get, line 48: the memory entry made from file entry e at time t
Backfill_Restamp(e, t) == [e EXCEPT !.timestamp = t]
Backfill(e, t) == e

\* where a thread goes when get returns value: a plain caller is done; the
\* wrapper returns the cached value unless it is None
AfterGet(r, value) ==
    IF r.wrapped /\ value = None
    THEN [r EXCEPT !.pc = "w_orig", !.sawExpired = FALSE]
    ELSE IdleThread

\* get returns to thread t
GetReturns(t, k, value, found, ts, sawExpired) ==
    /\ cth' = [cth EXCEPT ![t] = AfterGet(cth[t], value)]
    /\ cacheOp' = [op |-> "get", key |-> k, value |-> value, found |-> found,
                   timestamp |-> ts, age |-> IF found THEN clock - ts ELSE 0,
                   expired |-> ~found /\ sawExpired, raised |-> FALSE]
    /\ expiredMiss' = IF ~found /\ sawExpired
                      THEN expiredMiss \cup {k} ELSE expiredMiss

\* get, lines 30-38: take the lock and look in the memory tier
GetMemory(t, k) ==
    /\ cache_lock = 0
    /\ IF k \in DOMAIN memory_cache /\ Fresh(memory_cache[k], clock, ttl)
       THEN /\ GetReturns(t, k, memory_cache[k].value, TRUE,
                          memory_cache[k].timestamp, FALSE)
            /\ UNCHANGED <<memory_cache, cache_lock>>
       ELSE /\ memory_cache' = Drop(memory_cache, k)
            /\ cache_lock' = t
            /\ cth' = [cth EXCEPT ![t] =
                         [@ EXCEPT !.pc = "get_file", !.key = k,
                                   !.sawExpired = k \in DOMAIN memory_cache]]
            /\ UNCHANGED <<cacheOp, expiredMiss>>
    /\ UNCHANGED <<files, ttl, clock, lastSet, nonCacheVars>>

\* a thread calls get(k)
Get(t, k) ==
    /\ cth[t].pc = "idle"
    /\ GetMemory(t, k)

\* get, lines 40-58: look in the file tier, release the lock
GetFile(t) ==
    LET k == cth[t].key IN
    /\ cth[t].pc = "get_file"
    /\ cache_lock' = 0
    /\ IF k \notin DOMAIN files
       THEN /\ GetReturns(t, k, None, FALSE, 0, cth[t].sawExpired)
            /\ UNCHANGED <<memory_cache, files>>
       ELSE IF files[k] = Corrupt
       THEN /\ files' = Drop(files, k)
            /\ GetReturns(t, k, None, FALSE, 0, cth[t].sawExpired)
            /\ UNCHANGED memory_cache
       ELSE IF Fresh(files[k], clock, ttl)
       THEN /\ memory_cache' = Put(memory_cache, k, Backfill(files[k], clock))
            /\ GetReturns(t, k, files[k].value, TRUE, files[k].timestamp,
                          FALSE)
            /\ UNCHANGED files
       ELSE /\ files' = FilesAfterExpiry(files, k)
            /\ GetReturns(t, k, None, FALSE, 0, TRUE)
            /\ UNCHANGED memory_cache
    /\ UNCHANGED <<ttl, clock, lastSet, nonCacheVars>>

\* set, line 62: timestamp = time.time(), before the lock is taken
Set(t, k, v) ==
    /\ cth[t].pc = "idle"
    /\ cth' = [cth EXCEPT ![t] =
                 [IdleThread EXCEPT !.pc = "set_write", !.key = k,
                                    !.value = v, !.timestamp = clock]]
    /\ UNCHANGED <<memory_cache, files, ttl, cache_lock, clock, cacheOp,
                   expiredMiss, lastSet, nonCacheVars>>

\* set, lines 64-75: write both tiers under the lock
SetWrite(t, io) ==
    LET r == cth[t] IN
    /\ r.pc = "set_write"
    /\ cache_lock = 0
    /\ memory_cache' = Put(memory_cache, r.key,
                           [value |-> r.value, timestamp |-> r.timestamp])
    /\ files' = FileAfterSet(files, r.key, r.value, r.timestamp, io)
    /\ cacheOp' = [op |-> "set", key |-> r.key, value |-> r.value,
                   found |-> FALSE, timestamp |-> r.timestamp,
                   age |-> clock - r.timestamp, expired |-> FALSE,
                   raised |-> SetRaises(r.value, io)]
    /\ expiredMiss' = expiredMiss \ {r.key}
    /\ cth' = [cth EXCEPT ![t] =
                 IF r.wrapped /\ ~SetRaises(r.value, io)
                 THEN [r EXCEPT !.pc = "w_restore"]
                 ELSE IdleThread]
    /\ lastSet' = Put(lastSet, r.key, r.value)
    /\ UNCHANGED <<ttl, cache_lock, clock, nonCacheVars>>

\* invalidate(k)
Invalidate(t, k) ==
    /\ cth[t].pc = "idle"
    /\ cache_lock = 0
    /\ memory_cache' = Drop(memory_cache, k)
    /\ files' = Drop(files, k)
    /\ cacheOp' = [NoOp EXCEPT !.op = "invalidate", !.key = k]
    /\ lastSet' = Drop(lastSet, k)
    /\ UNCHANGED <<ttl, cache_lock, clock, cth, expiredMiss, nonCacheVars>>

\* clear()
Clear(t) ==
    /\ cth[t].pc = "idle"
    /\ cache_lock = 0
    /\ memory_cache' = <<>>
    /\ files' = <<>>
    /\ cacheOp' = [NoOp EXCEPT !.op = "clear"]
    /\ lastSet' = <<>>
    /\ UNCHANGED <<ttl, cache_lock, clock, cth, expiredMiss, nonCacheVars>>

\* a function wrapped by cache_result(ttl = T) is called; its arguments
\* give key k and it would compute v.  Line 104: cache_ttl = ttl or self.ttl,
\* for a decorator ttl T that is not None
WrapperCall(t, k, v, T) ==
    /\ cth[t].pc = "idle"
    /\ cth' = [cth EXCEPT ![t] =
                 [IdleThread EXCEPT !.pc = "w_get", !.key = k, !.value = v,
                                    !.cache_ttl = T,
                                    !.wrapped = TRUE]]
    /\ UNCHANGED <<memory_cache, files, ttl, cache_lock, clock, cacheOp,
                   expiredMiss, lastSet, nonCacheVars>>

\* wrapper, line 108: cached = self.get(key)
WrapperGet(t) ==
    /\ cth[t].pc = "w_get"
    /\ GetMemory(t, cth[t].key)

\* wrapper, lines 113-116: result = func(...); original_ttl = self.ttl
WrapperReadTtl(t) ==
    /\ cth[t].pc = "w_orig"
    /\ cth' = [cth EXCEPT ![t] =
                 [@ EXCEPT !.pc = "w_setttl", !.original_ttl = ttl]]
    /\ UNCHANGED <<memory_cache, files, ttl, cache_lock, clock, cacheOp,
                   expiredMiss, lastSet, nonCacheVars>>

\* wrapper, line 117: self.ttl = cache_ttl, no lock held
WrapperSetTtl(t) ==
    /\ cth[t].pc = "w_setttl"
    /\ ttl' = cth[t].cache_ttl
    /\ cth' = [cth EXCEPT ![t] = [@ EXCEPT !.pc = "w_stamp"]]
    /\ UNCHANGED <<memory_cache, files, cache_lock, clock, cacheOp,
                   expiredMiss, lastSet, nonCacheVars>>

\* wrapper, line 118: self.set(key, result), its line 62
WrapperStamp(t) ==
    /\ cth[t].pc = "w_stamp"
    /\ cth' = [cth EXCEPT ![t] =
                 [@ EXCEPT !.pc = "set_write", !.timestamp = clock]]
    /\ UNCHANGED <<memory_cache, files, ttl, cache_lock, clock, cacheOp,
                   expiredMiss, lastSet, nonCacheVars>>

\* wrapper, line 119: self.ttl = original_ttl
WrapperRestoreTtl(t) ==
    /\ cth[t].pc = "w_restore"
    /\ ttl' = cth[t].original_ttl
    /\ cth' = [cth EXCEPT ![t] = IdleThread]
    /\ UNCHANGED <<memory_cache, files, cache_lock, clock, cacheOp,
                   expiredMiss, lastSet, nonCacheVars>>

\* time passes
CacheTick ==
    /\ clock < MaxClock
    /\ clock' = clock + 1
    /\ cacheOp' = NoOp
    /\ UNCHANGED <<memory_cache, files, ttl, cache_lock, cth, expiredMiss,
                   lastSet, nonCacheVars>>

NextCache ==
    \/ \E t \in PlainThreads, k \in CacheKeys : Get(t, k)
    \/ \E t \in CacheThreads : GetFile(t)
    \/ \E t \in PlainThreads, k \in CacheKeys, v \in CacheValues : Set(t, k, v)
    \/ \E t \in CacheThreads, io \in {"ok", "open_fails", "write_fails"} :
          SetWrite(t, io)
    \/ \E t \in PlainThreads, k \in CacheKeys : Invalidate(t, k)
    \/ \E t \in PlainThreads : Clear(t)
    \/ \E t \in CacheThreads, k \in CacheKeys, v \in WrapperValues,
          T \in DecoratorTtls : WrapperCall(t, k, v, T)
    \/ \E t \in CacheThreads : WrapperGet(t)
    \/ \E t \in CacheThreads : WrapperReadTtl(t)
    \/ \E t \in CacheThreads : WrapperSetTtl(t)
    \/ \E t \in CacheThreads : WrapperStamp(t)
    \/ \E t \in CacheThreads : WrapperRestoreTtl(t)
    \/ CacheTick

SpecCache == Init /\ [][NextCache]_vars

\* -----------------------------------------------------------------
\* Claims about the cache
\* -----------------------------------------------------------------

\* C16: get never returns an entry whose age, now - stored_at, has reached
\* the ttl the cache was configured with.
C16_NoStaleReturn ==
    (cacheOp.op = "get" /\ cacheOp.found) => cacheOp.age < DefaultTtl

\* C17: set(k, v) followed immediately by get(k), the entry younger than
\* the ttl, reports a hit (a result that is not None) and returns v.
C17_SetThenGet ==
    [][\A t \in PlainThreads, k \in CacheKeys :
          (/\ Get(t, k)
           /\ cacheOp.op = "set"
           /\ cacheOp.key = k
           /\ clock - cacheOp.timestamp < ttl) =>
              /\ cacheOp'.op = "get"
              /\ cacheOp'.value = cacheOp.value
              /\ cacheOp'.value # None]_vars

\* C18: once get(k) has missed on an expired entry, and until the next
\* set(k) writes, k is in neither tier and every get(k) misses.
C18_NoResurrection ==
    \A k \in expiredMiss :
        /\ k \notin DOMAIN memory_cache
        /\ k \notin DOMAIN files
        /\ (cacheOp.op = "get" /\ cacheOp.key = k) => ~cacheOp.found

\* a get after the one that removed the expired entry missed as well
C18_Witness ==
    /\ cacheOp.op = "get"
    /\ cacheOp.key \in expiredMiss
    /\ ~cacheOp.found
    /\ ~cacheOp.expired

\* =================================================================
\* The cleanup loop (backend/cleanup_scheduler.py) and the retention of
\* jobs (JobTracker.cleanup_old_jobs, backend/job_tracker.py)
\*
\* datetime.utcnow() is read in ticks, TicksPerDay ticks to the day, tick 0
\* a midnight.  The temporary files that the third step deletes are not
\* part of the state.
\* =================================================================
\* the bounds: the resolution of the clock, the threads ever started
TicksPerDay == 2
MaxLoops == 2

\* _run: self.job_tracker.cleanup_old_jobs(days=7)
cleanup_days == 7

\* _run: self.rate_limiter.cleanup_old_buckets(max_age_seconds=3600)
bucket_max_age_seconds == 3600

\* get_jobs(status=None, limit=100)
get_jobs_limit == 100

\* the last tick of a run: a day past the retention window
MaxUtc == (cleanup_days + 1) * TicksPerDay

Steps == {"jobs", "buckets", "temp"}

\* the ids of the jobs created while the loop is watched
StoreJobIds == {1, 2}

\* datetime.utcnow().replace(hour=0, minute=0, second=0, microsecond=0)
\*     - timedelta(days=days)
Cutoff(t, days) == (t \div TicksPerDay) * TicksPerDay - days * TicksPerDay

\* DELETE FROM jobs WHERE created_at < cutoff: the ids that stay
Kept(ca, cutoff) == {j \in DOMAIN ca : ~(ca[j] < cutoff)}

\* get_jobs(): SELECT * FROM jobs ORDER BY created_at DESC LIMIT 100, the
\* ids of the rows returned
GetJobs(js, ca) ==
    {j \in DOMAIN js :
        Cardinality({i \in DOMAIN js :
                        ca[i] > ca[j] \/ (ca[i] = ca[j] /\ i < j)})
            < get_jobs_limit}

\* create_job(j) for an id without a row
TrackerCreateJob(j) ==
    /\ tracker_lock = NoThread
    /\ j \notin DOMAIN jobs
    /\ \A k \in 1..(j - 1) : k \in DOMAIN jobs
    /\ jobs' = jobs @@ (j :> NewRow)
    /\ created_at' = created_at @@ (j :> utc)
    /\ UNCHANGED <<tracker_lock, task_queue, active_workers, worker_lock,
                   queue_lock, caller, workers, sd, enqueued,
                   queuedAtShutdown>>
    /\ UNCHANGED <<utc, running, loops, rlVars, cacheVars, directVars>>

\* start()
Start ==
    /\ ~running
    /\ Len(loops) < MaxLoops
    /\ running' = TRUE
    /\ loops' = Append(loops, [pc |-> "check", ran |-> {}, raised |-> FALSE])
    /\ UNCHANGED <<utc, created_at, poolVars, rlVars, cacheVars, directVars>>

\* stop(): self.running = False, then self.thread.join(timeout=5).  The
\* thread joined is the one started last.  If it is at the while test or in
\* the sleep, it finds running False within a second and has exited when
\* the join returns; if it is inside a sweep, the join may give up after
\* 5 s and leave it there
Stop ==
    /\ running' = FALSE
    /\ loops' = [l \in DOMAIN loops |->
                   IF l = Len(loops) /\ loops[l].pc \in {"check", "sleep"}
                   THEN [pc |-> "exited", ran |-> {}, raised |-> FALSE]
                   ELSE loops[l]]
    /\ UNCHANGED <<utc, created_at, poolVars, rlVars, cacheVars, directVars>>

\* _run, line 51: while self.running
LoopCheck(l) ==
    /\ l \in DOMAIN loops
    /\ loops[l].pc = "check"
    /\ loops' = [loops EXCEPT ![l] =
                   IF running
                   THEN [pc |-> "jobs", ran |-> {}, raised |-> FALSE]
                   ELSE [pc |-> "exited", ran |-> {}, raised |-> FALSE]]
    /\ UNCHANGED <<utc, created_at, running, poolVars, rlVars, cacheVars,
                   directVars>>

\* _run, line 54: cleanup_old_jobs(days=7) returns
SweepJobs(l) ==
    LET kept == Kept(created_at, Cutoff(utc, cleanup_days)) IN
    /\ l \in DOMAIN loops
    /\ loops[l].pc = "jobs"
    /\ tracker_lock = NoThread
    /\ jobs' = Restrict(jobs, kept)
    /\ created_at' = Restrict(created_at, kept)
    /\ loops' = [loops EXCEPT ![l].pc = "buckets", ![l].ran = @ \cup {"jobs"}]
    /\ UNCHANGED <<tracker_lock, task_queue, active_workers, worker_lock,
                   queue_lock, caller, workers, sd, enqueued,
                   queuedAtShutdown>>
    /\ UNCHANGED <<utc, running, rlVars, cacheVars, directVars>>

\* _run, line 54: cleanup_old_jobs raises (sqlite3.OperationalError); the
\* except clause of line 65 takes over
SweepJobsRaises(l) ==
    /\ l \in DOMAIN loops
    /\ loops[l].pc = "jobs"
    /\ loops' = [loops EXCEPT ![l].pc = "sleep", ![l].raised = TRUE]
    /\ UNCHANGED <<utc, created_at, running, poolVars, rlVars, cacheVars,
                   directVars>>

\* _run, lines 59-60: cleanup_old_buckets(max_age_seconds=3600)
SweepBuckets(l) ==
    LET gone == ToRemove(buckets, now, bucket_max_age_seconds * TicksPerSecond)
    IN
    /\ l \in DOMAIN loops
    /\ loops[l].pc = "buckets"
    /\ buckets' = Restrict(buckets, DOMAIN buckets \ gone)
    /\ burst' = Restrict(burst, DOMAIN burst \ gone)
    /\ loops' = [loops EXCEPT ![l].pc = "temp", ![l].ran = @ \cup {"buckets"}]
    /\ UNCHANGED <<now, rlOp, utc, created_at, running, poolVars, cacheVars,
                   directVars>>

\* _run, line 63: _cleanup_temp_files(), which catches its own errors
SweepTempFiles(l) ==
    /\ l \in DOMAIN loops
    /\ loops[l].pc = "temp"
    /\ loops' = [loops EXCEPT ![l].pc = "sleep", ![l].ran = @ \cup {"temp"}]
    /\ UNCHANGED <<utc, created_at, running, poolVars, rlVars, cacheVars,
                   directVars>>

\* _run, lines 69-72: the sleep ends, after cleanup_interval seconds or at
\* the first second that finds running False
SleepEnds_Resweeps(l) ==
    /\ l \in DOMAIN loops
    /\ loops[l].pc = "sleep"
    /\ loops' = [loops EXCEPT ![l] =
                   [pc |-> "jobs", ran |-> {}, raised |-> FALSE]]
    /\ UNCHANGED <<utc, created_at, running, poolVars, rlVars, cacheVars,
                   directVars>>
SleepEnds(l) ==
    /\ l \in DOMAIN loops
    /\ loops[l].pc = "sleep"
    /\ loops' = [loops EXCEPT ![l] =
                   [pc |-> "check", ran |-> {}, raised |-> FALSE]]
    /\ UNCHANGED <<utc, created_at, running, poolVars, rlVars, cacheVars,
                   directVars>>

\* time passes
UtcTick ==
    /\ utc < MaxUtc
    /\ utc' = utc + 1
    /\ UNCHANGED <<created_at, running, loops, poolVars, rlVars, cacheVars,
                   directVars>>

NextCleanup ==
    \/ \E j \in StoreJobIds : TrackerCreateJob(j)
    \/ Start
    \/ Stop
    \/ \E l \in 1..MaxLoops : LoopCheck(l)
    \/ \E l \in 1..MaxLoops : SweepJobs(l)
    \/ \E l \in 1..MaxLoops : SweepJobsRaises(l)
    \/ \E l \in 1..MaxLoops : SweepBuckets(l)
    \/ \E l \in 1..MaxLoops : SweepTempFiles(l)
    \/ \E l \in 1..MaxLoops : SleepEnds(l)
    \/ UtcTick

SpecCleanup == Init /\ [][NextCleanup]_vars

\* a step of the thread that runs _run: the thread is scheduled, the store
\* call and time.sleep(1) return
LoopStep(l) ==
    \/ LoopCheck(l)
    \/ SweepJobs(l)
    \/ SweepJobsRaises(l)
    \/ SweepBuckets(l)
    \/ SweepTempFiles(l)
    \/ SleepEnds(l)

\* the scheduler alone, over a jobs table that receives no new row
NextLoop ==
    \/ Start
    \/ Stop
    \/ \E l \in 1..MaxLoops : LoopCheck(l)
    \/ \E l \in 1..MaxLoops : SweepJobs(l)
    \/ \E l \in 1..MaxLoops : SweepJobsRaises(l)
    \/ \E l \in 1..MaxLoops : SweepBuckets(l)
    \/ \E l \in 1..MaxLoops : SweepTempFiles(l)
    \/ \E l \in 1..MaxLoops : SleepEnds(l)
    \/ UtcTick

SpecLoop == Init /\ [][NextLoop]_vars

FairSpecLoop == SpecLoop /\ \A l \in 1..MaxLoops : WF_vars(LoopStep(l))

\* -----------------------------------------------------------------
\* Claims about the cleanup loop
\* -----------------------------------------------------------------

\* C19: in every sweep each of the three steps is run, also when an earlier
\* step of the sweep raised, and a step that raises does not end the loop:
\* a loop that has reached its sleep has run all three steps, and a loop
\* in which a step raised has not exited.
C19_EveryStepRuns ==
    \A l \in DOMAIN loops :
        /\ loops[l].pc = "sleep" => loops[l].ran = Steps
        /\ loops[l].raised => loops[l].pc # "exited"

\* C20: after the sweep's cleanup_old_jobs(days = d), get_jobs lists no job
\* whose created_at is more than d days before the current time, and lists
\* every job created within the d days.
C20_RetentionExact ==
    [][\A l \in 1..MaxLoops :
          SweepJobs(l) =>
              \A j \in DOMAIN jobs :
                  IF utc - created_at[j] > cleanup_days * TicksPerDay
                  THEN j \notin GetJobs(jobs', created_at')
                  ELSE j \in GetJobs(jobs', created_at')]_vars

AllExited == \A l \in DOMAIN loops : loops[l].pc = "exited"

\* C21: after stop() with no start() following (running is False), no loop
\* begins a sweep, and every loop thread eventually terminates unless
\* start() is called.
C21_StopEndsLoop ==
    /\ [][~running =>
            \A l \in DOMAIN loops :
                loops[l].pc # "jobs" => loops'[l].pc # "jobs"]_vars
    /\ ~running ~> (running \/ AllExited)

\* stop() was called while a sweep was in progress
C21_Witness ==
    /\ ~running
    /\ \E l \in DOMAIN loops : loops[l].pc \in {"buckets", "temp"}

\* -----------------------------------------------------------------
\* Further claims about the job store and the pool
\* -----------------------------------------------------------------

\* C22: create_job of an id that has a row raises and leaves every row as
\* it was, and the submit that made the call enqueues nothing and starts no
\* worker; create_job of a new id inserts a PENDING row and changes no
\* other row.
C22_CreateJobDuplicateOrNew ==
    [][\A c \in Callers :
          /\ CreateJobDuplicate(c) =>
                /\ jobs' = jobs
                /\ created_at' = created_at
                /\ task_queue' = task_queue
                /\ enqueued' = enqueued
                /\ workers' = workers
                /\ active_workers' = active_workers
                /\ caller'[c].pc = "idle"
          /\ CreateJob(c) =>
                /\ jobs'[caller[c].job_id].status = PENDING
                /\ \A j \in DOMAIN jobs : jobs'[j] = jobs[j]]_vars

\* a submit is about to call create_job with the id of a job that shutdown
\* has cancelled
C22_Witness ==
    \E c \in Callers :
        /\ caller[c].pc = "create"
        /\ tracker_lock = NoThread
        /\ caller[c].job_id \in DOMAIN jobs
        /\ jobs[caller[c].job_id].status = CANCELLED

\* -----------------------------------------------------------------
\* JobTracker called directly (backend/job_tracker.py)
\* -----------------------------------------------------------------

\* the status values of JobStatus
StatusArgs == {PENDING, PROCESSING, COMPLETED, FAILED, CANCELLED}

\* progress arguments in tenths: not passed, -0.1, 0.5, 1.1
ProgressArgs == {NoProgress, -1, 5, 11}

\* update_job_status(j, status, progress) for a status other than
\* PROCESSING: under JobTracker.lock the UPDATE sets the status, the
\* completed_at of a COMPLETED or FAILED update and the progress as passed
\* (lines 95-97), for the rows WHERE job_id = j; then the lock is released
UpdateJobStatus(t, j, status, progress) ==
    /\ st[t].pc = "idle"
    /\ tracker_lock = NoThread
    /\ status # PROCESSING
    /\ jobs' = UpdateJobs(jobs, j, status, progress, None, None)
    /\ UNCHANGED <<tracker_lock, task_queue, active_workers, worker_lock,
                   queue_lock, caller, workers, sd, enqueued,
                   queuedAtShutdown>>
    /\ UNCHANGED <<st, qs, rlVars, cacheVars, cleanupVars>>

\* update_job_status(j, PROCESSING, ...): the thread takes JobTracker.lock
\* (line 79) and calls self.get_job(j) (line 87), which waits for the same
\* lock; no row is read or written
UpdateJobStatusProcessing(t, j) ==
    /\ st[t].pc = "idle"
    /\ tracker_lock = NoThread
    /\ tracker_lock' = StoreThread(t)
    /\ st' = [st EXCEPT ![t] = [pc |-> "get_job", job_id |-> j]]
    /\ UNCHANGED <<jobs, task_queue, active_workers, worker_lock, queue_lock,
                   caller, workers, sd, enqueued, queuedAtShutdown>>
    /\ UNCHANGED <<qs, rlVars, cacheVars, cleanupVars>>

\* thread t is inside update_job_status, owns JobTracker.lock and waits for
\* it in get_job
StoreStuck(t) ==
    /\ st[t].pc = "get_job"
    /\ tracker_lock = StoreThread(t)

NextStore ==
    \/ \E j \in StoreJobIds : TrackerCreateJob(j)
    \/ \E t \in StoreThreads, j \in StoreJobIds, status \in StatusArgs,
          progress \in ProgressArgs : UpdateJobStatus(t, j, status, progress)
    \/ \E t \in StoreThreads, j \in StoreJobIds :
          UpdateJobStatusProcessing(t, j)

SpecStore == Init /\ [][NextStore]_vars

\* C23: update_job_status on an id that has no row returns to its caller,
\* for every status value: no thread that made such a call is left waiting
\* inside it.
C23_UpdateOnMissingIdReturns ==
    \A t \in StoreThreads :
        ~(StoreStuck(t) /\ st[t].job_id \notin DOMAIN jobs)

\* C24: the stored progress of every job lies in [0.0, 1.0] (0 to 10
\* tenths): a progress argument outside the range is stored clamped.
C24_ProgressClamped ==
    \A j \in DOMAIN jobs :
        /\ jobs[j].progress >= 0
        /\ jobs[j].progress <= 10

\* C26: the first update of a dispatched job into PROCESSING sets
\* started_at, no later update unsets it, and a job that is CANCELLED
\* without having been dispatched has none.
C26_StartedAtSetOnce ==
    /\ \A j \in JobIds :
          [](Claimed(j) => <>(j \in DOMAIN jobs /\ jobs[j].started_at))
    /\ [][\A j \in DOMAIN jobs : jobs[j].started_at => jobs'[j].started_at]_vars
    /\ [](\A j \in DOMAIN jobs :
            (jobs[j].status = CANCELLED /\ ~Claimed(j)) => ~jobs[j].started_at)

\* -----------------------------------------------------------------
\* The rate limiting middleware (backend/rate_limiter.py, backend/main.py)
\* -----------------------------------------------------------------

\* RateLimitMiddleware.dispatch: the paths it passes on without a look at
\* the limiter
ExemptPaths_NoHealth ==
    {"/", "/api/status", "/api/metrics", "/docs", "/openapi.json"}
ExemptPaths ==
    {"/", "/api/health", "/api/status", "/api/metrics", "/docs",
     "/openapi.json"}

\* timing_and_rate_limit_middleware: its skip_paths
skip_paths ==
    {"/", "/api/health", "/api/status", "/api/metrics", "/docs",
     "/openapi.json", "/redoc"}

\* the paths of the requests: the skipped ones and a limited one
RequestPaths == skip_paths \cup {"/api/tts"}

\* a request of client k for path p through a middleware that skips the
\* paths of exempt: a skipped path goes to call_next; for another path
\* is_allowed decides between call_next and the 429 (get_retry_after, called
\* for the 429, only reads)
Request(k, p, exempt) ==
    /\ p \in RequestPaths
    /\ IF p \in exempt
       THEN /\ rlOp' = [op |-> "exempt", client |-> k, result |-> 1]
            /\ UNCHANGED <<buckets, burst>>
       ELSE /\ buckets' = IsAllowedBuckets(buckets, k, now)
            /\ rlOp' = [op |-> "limited", client |-> k,
                        result |-> IF IsAllowedReturn(buckets, k, now)
                                   THEN 1 ELSE 0]
            /\ burst' = BurstAfter(burst, k, k \notin DOMAIN buckets,
                                   IsAllowedReturn(buckets, k, now))
    /\ UNCHANGED <<now, nonRLVars>>

\* RateLimitMiddleware.dispatch(request, call_next)
Dispatch(k, p) == Request(k, p, ExemptPaths)

\* main.timing_and_rate_limit_middleware(request, call_next), with
\* rate_limiter set
TimingAndRateLimitMiddleware(k, p) == Request(k, p, skip_paths)

NextMiddleware ==
    \/ \E k \in Clients, p \in RequestPaths : Dispatch(k, p)
    \/ \E k \in Clients, p \in RequestPaths :
          TimingAndRateLimitMiddleware(k, p)
    \/ Tick

SpecMiddleware == Init /\ [][NextMiddleware]_vars

\* C27: a request for /, /api/health, /api/status, /api/metrics, /docs or
\* /openapi.json is passed on by either middleware, whatever the client's
\* bucket holds, and leaves the buckets as they are: it makes no bucket and
\* takes no token.
C27_ExemptPathsUnlimited ==
    [][\A k \in Clients :
        \A p \in {"/", "/api/health", "/api/status", "/api/metrics",
                  "/docs", "/openapi.json"} :
            (Dispatch(k, p) \/ TimingAndRateLimitMiddleware(k, p)) =>
                /\ rlOp'.result = 1
                /\ buckets' = buckets]_vars

\* an exempt request of a client was passed on while the client's bucket
\* held less than one token
C27_Witness ==
    /\ rlOp.op = "exempt"
    /\ rlOp.client \in DOMAIN buckets
    /\ Refilled(buckets[rlOp.client], now) < TokenUnit

\* -----------------------------------------------------------------
\* The worker's outcome and get_queue_status (backend/background_tasks.py)
\* -----------------------------------------------------------------

\* C28: each worker run ends in one terminal update: the job it was handed
\* becomes COMPLETED, with progress 1.0 and a result_path, or FAILED, with
\* no result_path, and the row is not written again.
C28_WorkerEndsTerminal ==
    /\ \A j \in JobIds :
          [](Claimed(j) =>
                <>(j \in DOMAIN jobs /\ jobs[j].status \in {COMPLETED, FAILED}))
    /\ [](\A j \in DOMAIN jobs :
            /\ jobs[j].status = COMPLETED =>
                  jobs[j].progress = 10 /\ jobs[j].result_path # None
            /\ jobs[j].status = FAILED => jobs[j].result_path = None)
    /\ [][\A j \in DOMAIN jobs :
            jobs[j].status \in {COMPLETED, FAILED} => jobs'[j] = jobs[j]]_vars

\* C29: active_workers is never negative and counts the workers started
\* and not finished; every worker gives its slot back (from any count n > 0
\* active_workers gets below n), and a job that waits in the queue
\* eventually leaves it.
C29_WorkerFreesSlot ==
    /\ [](active_workers >= 0 /\ active_workers <= Len(workers))
    /\ \A n \in 1..max_workers :
          [](active_workers = n => <>(active_workers < n))
    /\ \A j \in JobIds :
          [](j \in Range(task_queue) => <>(j \notin Range(task_queue)))

\* get_queue_status is called
GetQueueStatusCall ==
    /\ qs.pc = "idle"
    /\ qs' = [qs EXCEPT !.pc = "queue_lock"]
    /\ UNCHANGED <<poolVars, st, rlVars, cacheVars, cleanupVars>>

\* with self.queue_lock: queue_size = len(self.task_queue)
GetQueueStatusQueue ==
    /\ qs.pc = "queue_lock"
    /\ queue_lock = NoThread
    /\ qs' = [qs EXCEPT !.pc = "worker_lock",
                        !.queue_size = Len(task_queue)]
    /\ UNCHANGED <<poolVars, st, rlVars, cacheVars, cleanupVars>>

\* with self.worker_lock: active_workers = self.active_workers; the dict is
\* returned.  appended notes how many jobs the queue has received by now.
GetQueueStatusWorkers ==
    /\ qs.pc = "worker_lock"
    /\ worker_lock = NoThread
    /\ qs' = [qs EXCEPT !.pc = "returned",
                        !.active_workers = active_workers,
                        !.appended = Len(enqueued)]
    /\ UNCHANGED <<poolVars, st, rlVars, cacheVars, cleanupVars>>

\* the pool with one call of get_queue_status beside its other threads
NextStatus ==
    \/ Next
    \/ GetQueueStatusCall
    \/ GetQueueStatusQueue
    \/ GetQueueStatusWorkers

SpecStatus == Init /\ [][NextStatus]_vars

\* C30: the pair get_queue_status returns is the pair of one state of the
\* pool, so no job is counted both as queued and as active: queue_size and
\* active_workers together count no more jobs than the queue has received.
C30_StatusIsSnapshot ==
    qs.pc = "returned" => qs.queue_size + qs.active_workers <= qs.appended

\* -----------------------------------------------------------------
\* Further claims about the cache
\* -----------------------------------------------------------------

\* C31: when the write of the cache file fails during set(k, v) (open
\* fails, the write fails half way, or json.dump cannot write v), set
\* returns normally and the memory tier holds v with the timestamp set took.
C31_WriteFailureNotFatal ==
    [][\A t \in CacheThreads, io \in {"ok", "open_fails", "write_fails"} :
          (SetWrite(t, io) /\ (io # "ok" \/ ~JsonSerialisable(cth[t].value)))
              => /\ ~cacheOp'.raised
                 /\ cth[t].key \in DOMAIN memory_cache'
                 /\ memory_cache'[cth[t].key] =
                        [value |-> cth[t].value,
                         timestamp |-> cth[t].timestamp]]_vars

\* the ttl argument of a cache_result decorator, in ticks: shorter than the
\* configured ttl
WrapperTtl == 1

\* a cache used only through functions wrapped by cache_result(ttl =
\* WrapperTtl): every entry is stored with that explicit ttl
NextWrapper ==
    \/ \E t \in CacheThreads, k \in CacheKeys, v \in WrapperValues :
          WrapperCall(t, k, v, WrapperTtl)
    \/ \E t \in CacheThreads : WrapperGet(t)
    \/ \E t \in CacheThreads : GetFile(t)
    \/ \E t \in CacheThreads : WrapperReadTtl(t)
    \/ \E t \in CacheThreads : WrapperSetTtl(t)
    \/ \E t \in CacheThreads : WrapperStamp(t)
    \/ \E t \in CacheThreads, io \in {"ok", "open_fails", "write_fails"} :
          SetWrite(t, io)
    \/ \E t \in CacheThreads : WrapperRestoreTtl(t)
    \/ CacheTick

SpecWrapper == Init /\ [][NextWrapper]_vars

\* C32: an entry stored with the explicit ttl T of its cache_result wrapper
\* is no longer returned by get once its age has reached T: every hit has
\* an age below T, whatever the cache-wide ttl is.
C32_ExplicitTtlHonoured ==
    (cacheOp.op = "get" /\ cacheOp.found) => cacheOp.age < WrapperTtl

\* C36: once every call of a cache_result-wrapped function has returned
\* (no thread is inside the cache), self.ttl is the ttl the cache was
\* constructed with.
C36_TtlRestored ==
    (\A t \in CacheThreads : cth[t].pc = "idle") => ttl = DefaultTtl

\* C33: a get that finds no entry in the memory tier and an unexpired one
\* in the file tier returns the file's value and puts it into the memory
\* tier with the timestamp the file holds, so the copy expires when the
\* file entry does.
C33_BackfillKeepsTimestamp ==
    [][\A t \in CacheThreads :
          (/\ GetFile(t)
           /\ cth[t].key \in DOMAIN files
           /\ files[cth[t].key] # Corrupt
           /\ Fresh(files[cth[t].key], clock, ttl))
              => /\ cacheOp'.found
                 /\ cacheOp'.value = files[cth[t].key].value
                 /\ memory_cache'[cth[t].key].value = files[cth[t].key].value
                 /\ memory_cache'[cth[t].key].timestamp =
                        files[cth[t].key].timestamp
                 /\ files' = files]_vars

\* a get has just copied an entry that was written before the present tick
\* from the file tier into the memory tier
C33_Witness ==
    /\ cacheOp.op = "get"
    /\ cacheOp.found
    /\ cacheOp.value = "list"
    /\ cacheOp.age > 0
    /\ cacheOp.key \in DOMAIN memory_cache
    /\ cacheOp.key \in DOMAIN files
    /\ memory_cache[cacheOp.key] = files[cacheOp.key]

\* -----------------------------------------------------------------
\* Further claims about the rate limiter
\* -----------------------------------------------------------------

\* C34: an is_allowed or get_retry_after call for another client key
\* leaves client k's bucket as it is (present or absent, tokens and
\* last_update), and with it the result of every is_allowed call for k at
\* any later time.
C34_PerClientIsolation ==
    [][\A k \in Clients, o \in Clients :
          (o # k /\ (IsAllowed(o) \/ GetRetryAfter(o))) =>
              /\ (k \in DOMAIN buckets') <=> (k \in DOMAIN buckets)
              /\ k \in DOMAIN buckets => buckets'[k] = buckets[k]
              /\ \A t \in now..MaxTime :
                    IsAllowedReturn(buckets', k, t)
                        <=> IsAllowedReturn(buckets, k, t)]_vars

\* a client was admitted at a time when another client's bucket held less
\* than one token
C34_Witness ==
    /\ rlOp.op = "is_allowed"
    /\ rlOp.result = 1
    /\ \E o \in DOMAIN buckets :
          /\ o # rlOp.client
          /\ Refilled(buckets[o], now) < TokenUnit

\* C39: for one client and a window of T seconds, at most
\* burst_size + T * tokens_per_second is_allowed calls are admitted, also
\* when the bucket is made in the window or cleanup_old_buckets has removed
\* it before; for the window of length 0 that begins when the bucket is
\* made: of the calls in that instant at most burst_size are admitted.
C39_WindowBound ==
    \A k \in DOMAIN burst : burst[k].admitted <= burst_size

\* -----------------------------------------------------------------
\* Further claims about the job store, the scheduler and the pool
\* -----------------------------------------------------------------

\* C35: every JobTracker call takes JobTracker.lock, completes and releases
\* it: no thread is inside a call waiting for the lock while owning it.
C35_StoreCallsComplete == \A t \in StoreThreads : ~StoreStuck(t)

\* C37: whatever start() and stop() calls are made, at most one thread
\* running _run is inside its sweeps at any time.
C37_OneLoopSweeping ==
    Cardinality({l \in DOMAIN loops :
                    loops[l].pc \in {"jobs", "buckets", "temp"}}) <= 1


\* -----------------------------------------------------------------
\* The cache across a restart of the process
\* -----------------------------------------------------------------

\* the process ends and main.py builds a new CacheManager() over the same
\* cache directory: the memory tier, the lock and the calls in flight are
\* gone, ttl is the default again, the files stay
Restart ==
    /\ memory_cache' = <<>>
    /\ cache_lock' = 0
    /\ ttl' = DefaultTtl
    /\ cth' = [t \in CacheThreads |-> IdleThread]
    /\ cacheOp' = [NoOp EXCEPT !.op = "restart"]
    /\ UNCHANGED <<files, clock, expiredMiss, lastSet, nonCacheVars>>

NextRestart ==
    \/ NextCache
    \/ Restart

SpecRestart == Init /\ [][NextRestart]_vars

\* C38: get(k) never returns a value that a later set(k) has overwritten:
\* a get(k) that returns a value other than None returns the value of the
\* latest set(k), as it was given or as JSON gives it back, also when that
\* set's file write failed and the process has restarted since.
C38_NoOverwrittenValue ==
    (/\ cacheOp.op = "get"
     /\ cacheOp.found
     /\ cacheOp.value # None
     /\ cacheOp.key \in DOMAIN lastSet)
        => cacheOp.value \in {lastSet[cacheOp.key],
                              JsonRoundTrip(lastSet[cacheOp.key])}

\* -----------------------------------------------------------------
\* The order in which the pool's locks are taken
\* -----------------------------------------------------------------

\* the thread that calls get_queue_status
StatusThread == <<"status", 0>>

\* thread th is at a "with self.worker_lock": _process_queue, or the
\* second block of get_queue_status
AtWorkerLock(th) ==
    \/ \E c \in Callers : th = CallerThread(c) /\ caller[c].pc = "process_queue"
    \/ th = StatusThread /\ qs.pc = "worker_lock"

\* thread th is at a "with self.queue_lock": submit_avatar_job,
\* _process_queue, shutdown, or the first block of get_queue_status
AtQueueLock(th) ==
    \/ \E c \in Callers :
          th = CallerThread(c) /\ caller[c].pc \in {"append", "queue_lock"}
    \/ th = ShutdownThread /\ sd.pc = "cancel_lock"
    \/ th = StatusThread /\ qs.pc = "queue_lock"

\* C40: worker_lock is never acquired by a thread that holds queue_lock,
\* queue_lock is acquired by a thread that holds no pool lock or holds
\* worker_lock only, and so no two threads wait for worker_lock and
\* queue_lock in a cycle.
C40_PoolLockOrder ==
    /\ ~AtWorkerLock(queue_lock)
    /\ ~AtQueueLock(queue_lock)
    /\ ~AtWorkerLock(worker_lock)
    /\ ~(\E a, b \in {CallerThread(c) : c \in Callers}
              \cup {ShutdownThread, StatusThread} :
            /\ a # b
            /\ worker_lock = a /\ AtQueueLock(a)
            /\ queue_lock = b /\ AtWorkerLock(b))

\* a chain of waits that is no cycle: a thread in _process_queue holds
\* worker_lock and waits for queue_lock, which shutdown holds, while another
\* thread waits for worker_lock
C40_Witness ==
    /\ \E c, d \in Callers :
          /\ caller[c].pc = "queue_lock"
          /\ worker_lock = CallerThread(c)
          /\ caller[d].pc = "process_queue"
    /\ queue_lock = ShutdownThread

====
